---------------------------- MODULE Spec2Model ----------------------------
(***************************************************************************)
(* A model of tinylogger (namespace tlog): the Logger with its sink set    *)
(* and its hidden severities, the two IOutput variants and the text they   *)
(* write, the LogStream message builder (both the std::ostringstream-      *)
(* member version and the std::unique_ptr version), the progress bar       *)
(* renderer, the global accessors and the progress handle.                 *)
(*                                                                         *)
(* A std::string is a sequence of one-character strings.  A duration is a  *)
(* record [sec, usec] holding a microsecond count split at the second, so  *)
(* that a count of days fits TLC's integers.  The doubles of the renderer  *)
(* (fraction, fraction * 100, usableWidth * fraction) are IEEE binary64    *)
(* values, a significand of at most 53 binary digits and an exponent,      *)
(* rounded to nearest-even after every operation.  The projected duration, *)
(* which is truncated to whole seconds before it is printed, is computed   *)
(* on the exact quotient: for the totals and durations of this model the   *)
(* double product truncates to the same second.                            *)
(***************************************************************************)
EXTENDS Integers, Sequences, FiniteSets, TLC

VARIABLES
    build,          \* which LogStream the header compiles: "member" or "unique_ptr"
    addr,           \* the heap address of each sink object (shared_ptr::get)
    mOutputs,       \* Logger::mOutputs
    mHiddenTypes,   \* Logger::mHiddenTypes
    registered,     \* history: registered sinks, oldest effective addOutput first
    op,             \* the operation that ran last, with its arguments
    calls,          \* the IOutput calls the last operation made, in call order
    streams,        \* the LogStream objects
    bar,            \* the renderer called on its own: its input and its result
    mSupportsAnsiControlSequences,  \* ConsoleOutput's cached flag
    strftimeFails,  \* the sinks whose std::strftime call reports failure
    statics,        \* the function-local statics of Logger::global() and
                    \* ConsoleOutput::global(), and the console object's owners
    progress,       \* the progress handle
    clock           \* the time, in half seconds

\* what a sink's writeLine depends on besides its arguments
sinkEnv == <<mSupportsAnsiControlSequences, strftimeFails>>

\* the progress handle and the time it reads
handleVars == <<progress, clock>>

vars == <<build, addr, mOutputs, mHiddenTypes, registered, op, calls, streams, bar,
          sinkEnv, statics, handleVars>>

-----------------------------------------------------------------------------
(* Bounds *)

\* the largest total handed to logProgress / progressBar
MaxTotal == 4
\* the largest number of operator<< calls on one LogStream
MaxAppend == 2
\* the widest terminal handed to progressBar
MaxWidth == 90
MaxPercentTotal == 40
MaxDays == 2
\* the last tick of the clock, in half seconds
MaxClock == 3

-----------------------------------------------------------------------------
(* std::string helpers *)

Digits == <<"0", "1", "2", "3", "4", "5", "6", "7", "8", "9">>

RECURSIVE to_string(_)
\* std::to_string of a non-negative integer
to_string(n) ==
    IF n < 10 THEN <<Digits[n + 1]>>
    ELSE to_string(n \div 10) \o <<Digits[(n % 10) + 1]>>

\* the string handed back as it came, whatever the length asked for
padFromLeft_unpadded(str, length, pad) == str

\* a string of n copies of ch
Fill(n, ch) == [i \in 1..n |-> ch]

padFromLeft(str, length, paddingChar) ==
    IF length > Len(str)
    THEN Fill(length - Len(str), paddingChar) \o str
    ELSE str

padFromRight(str, length, paddingChar) ==
    IF length > Len(str)
    THEN str \o Fill(length - Len(str), paddingChar)
    ELSE str

-----------------------------------------------------------------------------
(* Durations *)

UsecPerSec == 1000000
SecPerMinute == 60
SecPerHour == 3600
SecPerDay == 86400

Dur(s, us) == [sec |-> s, usec |-> us]

\* durationToString: the duration_casts truncate, so only whole seconds count
durationToString(dur) ==
    LET d == dur.sec \div SecPerDay
        afterD == dur.sec - d * SecPerDay
        h == afterD \div SecPerHour
        afterH == afterD - h * SecPerHour
        m == afterH \div SecPerMinute
        s == afterH - m * SecPerMinute
    IN  IF d > 0 THEN
            to_string(d) \o <<"d">> \o
            padFromLeft(to_string(h), 2, "0") \o <<"h">> \o
            padFromLeft(to_string(m), 2, "0") \o <<"m">> \o
            padFromLeft(to_string(s), 2, "0") \o <<"s">>
        ELSE IF h > 0 THEN
            to_string(h) \o <<"h">> \o
            padFromLeft(to_string(m), 2, "0") \o <<"m">> \o
            padFromLeft(to_string(s), 2, "0") \o <<"s">>
        ELSE IF m > 0 THEN
            to_string(m) \o <<"m">> \o
            padFromLeft(to_string(s), 2, "0") \o <<"s">>
        ELSE
            to_string(s) \o <<"s">>

\* duration * (1 / fraction) with fraction = current / total, current > 0:
\* the microsecond count times total / current, split again at the second
projectedDuration(current, total, duration) ==
    LET secT == duration.sec * total
        q == secT \div current
        r == secT % current
        restUs == (r * UsecPerSec + duration.usec * total) \div current
    IN  Dur(q + restUs \div UsecPerSec, restUs % UsecPerSec)

\* std::round of the non-negative rational num / den: halves away from zero
Round(num, den) == (2 * num + den) \div (2 * den)

Max(a, b) == IF a > b THEN a ELSE b

-----------------------------------------------------------------------------
(* double: IEEE binary64, round to nearest, ties to even *)

\* the bits of the significand
Mantissa == 53

\* a large natural number is a sequence of limbs, most significant first,
\* each below Base; TLC's integers hold 31 bits, a limb times a small factor fits
LimbBits == 15

Base == 2 ^ LimbBits

RECURSIVE BitLength(_)
\* the number of binary digits of n >= 0; 0 for 0
BitLength(n) == IF n = 0 THEN 0 ELSE 1 + BitLength(n \div 2)

RECURSIVE StripZeros(_)
StripZeros(limbs) ==
    IF limbs # <<>> /\ Head(limbs) = 0 THEN StripZeros(Tail(limbs)) ELSE limbs

\* all but the last limb
Front(limbs) == SubSeq(limbs, 1, Len(limbs) - 1)

\* the number of binary digits of a large number without leading zero limbs
BigLength(limbs) ==
    IF limbs = <<>> THEN 0 ELSE (Len(limbs) - 1) * LimbBits + BitLength(Head(limbs))

RECURSIVE BigValue(_)
\* the number a short limb sequence denotes
BigValue(limbs) ==
    IF limbs = <<>> THEN 0 ELSE Base * BigValue(Front(limbs)) + limbs[Len(limbs)]

RECURSIVE LongDivide(_, _, _, _)
\* school division of the large number num by the small divisor t
LongDivide(num, t, r, q) ==
    IF num = <<>> THEN [q |-> q, r |-> r]
    ELSE LET r2 == Base * r + Head(num)
         IN  LongDivide(Tail(num), t, r2 % t, Append(q, r2 \div t))

RECURSIVE MulCarry(_, _, _)
\* the large number times the small factor n, plus carry
MulCarry(limbs, n, carry) ==
    IF limbs = <<>> THEN (IF carry = 0 THEN <<>> ELSE <<carry>>)
    ELSE LET v == limbs[Len(limbs)] * n + carry
         IN  MulCarry(Front(limbs), n, v \div Base) \o <<v % Base>>

RECURSIVE ShiftRight(_, _, _)
\* the large number without its d lowest binary digits, and how the part cut
\* off compares with half a unit of what is kept (sticky: a non-zero part was
\* cut off before)
ShiftRight(limbs, d, sticky) ==
    IF d = 0 THEN [q |-> limbs, half |-> FALSE, above |-> FALSE]
    ELSE IF limbs = <<>> THEN [q |-> <<>>, half |-> FALSE, above |-> FALSE]
    ELSE IF d > LimbBits
         THEN ShiftRight(Front(limbs), d - LimbBits, sticky \/ limbs[Len(limbs)] # 0)
    ELSE LET D == 2 ^ d
             x == LongDivide(limbs, D, 0, <<>>)
         IN  [q |-> StripZeros(x.q),
              half |-> 2 * x.r = D /\ ~sticky,
              above |-> 2 * x.r > D \/ (2 * x.r = D /\ sticky)]

\* +0.0
DoubleZero == [sig |-> <<>>, exp |-> 0]

\* the double nearest to limbs * 2^exp, ties to the even significand (sticky:
\* a non-zero part below the last digit was cut off already); a double is
\* sig * 2^exp with sig below 2^Mantissa or equal to it
RoundToDouble(limbs, sticky, exp) ==
    LET d == BigLength(limbs) - Mantissa
    IN  IF d <= 0 THEN [sig |-> limbs, exp |-> exp]
        ELSE LET x == ShiftRight(limbs, d, sticky)
                 odd == x.q[Len(x.q)] % 2 = 1
                 up == x.above \/ (x.half /\ odd)
             IN  [sig |-> IF up THEN StripZeros(MulCarry(x.q, 1, 1)) ELSE x.q,
                  exp |-> exp + d]

\* the digits the quotient is computed with before it is rounded
QuotientLimbs == 5

\* (double)c / t for integers c >= 0, t > 0 below Base
DoubleDivide(c, t) ==
    IF c = 0 THEN DoubleZero
    ELSE LET x == LongDivide(<<c>> \o [i \in 1..QuotientLimbs |-> 0], t, 0, <<>>)
         IN  RoundToDouble(StripZeros(x.q), x.r # 0, 0 - QuotientLimbs * LimbBits)

\* x * n for a double x >= 0 and an integer 0 <= n < Base (n converts exactly)
DoubleTimes(x, n) ==
    IF x.sig = <<>> \/ n = 0 THEN DoubleZero
    ELSE RoundToDouble(StripZeros(MulCarry(x.sig, n, 0)), FALSE, x.exp)

\* (int)std::round(x) for a double x >= 0 within int: halves away from zero
RoundToInt(x) ==
    IF x.sig = <<>> THEN 0
    ELSE IF x.exp >= 0 THEN BigValue(x.sig) * 2 ^ x.exp
    ELSE LET y == ShiftRight(x.sig, 0 - x.exp, FALSE)
         IN  BigValue(y.q) + (IF y.above \/ y.half THEN 1 ELSE 0)

-----------------------------------------------------------------------------
(* The progress bar renderer *)

\* double fraction = (double)current / total
fractionOf(current, total) == DoubleDivide(current, total)

\* the percentage rounded from the exact quotient instead of the double product
percentageOf_exact(current, total) == Round(current * 100, total)

\* (int)std::round(fraction * 100)
percentageOf(current, total) == RoundToInt(DoubleTimes(fractionOf(current, total), 100))

labelOf(current, total, duration) ==
    LET percentageStr == padFromLeft(to_string(percentageOf(current, total)) \o <<"%">>, 4, " ")
        totalStr == to_string(total)
        fractionStr == padFromLeft(to_string(current) \o <<"/">> \o totalStr,
                                   Len(totalStr) * 2 + 1, " ")
        projectedDurationStr == durationToString(projectedDuration(current, total, duration))
        timeStr == padFromLeft(durationToString(duration) \o <<"/">> \o projectedDurationStr,
                               Len(projectedDurationStr) * 2 + 1, " ")
    IN  percentageStr \o <<" ", "(">> \o fractionStr \o <<")", " ">> \o timeStr

BracketChars == 2
SpaceChars == 1
PrefixChars == 18

\* the bar sized without the room for the brackets, the space and the prefix
usableWidthOf_labelOnly(label, width) == Max(0, width - Len(label))

usableWidthOf(label, width) ==
    Max(0, width - BracketChars - SpaceChars - Len(label) - PrefixChars)

\* the filled characters cut down to a whole number instead of rounded
numFilledCharsOf_truncated(usableWidth, current, total) ==
    (usableWidth * current) \div total

\* (int)round(usableWidth * fraction)
numFilledCharsOf(usableWidth, current, total) ==
    RoundToInt(DoubleTimes(fractionOf(current, total), usableWidth))

\* the body without the test numFilledChars > 0: an arrow at index 0 of an
\* unfilled bar
bodyOf_arrowAtZero(usableWidth, numFilledChars) ==
    [i \in 1..usableWidth |->
        IF i <= numFilledChars THEN "="
        ELSE IF i = numFilledChars + 1 THEN ">"
        ELSE " "]

\* string body(usableWidth, ' ') with [0, numFilledChars) set to '=' and
\* index numFilledChars set to '>' when 0 < numFilledChars < usableWidth
bodyOf(usableWidth, numFilledChars) ==
    [i \in 1..usableWidth |->
        IF numFilledChars > 0 /\ i <= numFilledChars THEN "="
        ELSE IF numFilledChars > 0 /\ numFilledChars < usableWidth /\ i = numFilledChars + 1 THEN ">"
        ELSE " "]

progressBar(current, total, duration, width) ==
    LET label == labelOf(current, total, duration)
        usableWidth == usableWidthOf(label, width)
        numFilledChars == numFilledCharsOf(usableWidth, current, total)
    IN  <<"[">> \o bodyOf(usableWidth, numFilledChars) \o <<"]", " ">> \o label

-----------------------------------------------------------------------------
(* Severities and sinks *)

ESeverity == {"None", "Info", "Debug", "Warning", "Error", "Success", "Progress"}

\* the IOutput objects of the program: ConsoleOutput::global() and a FileOutput
Sinks == {"console", "file"}

IsConsole(sink) == sink = "console"

\* FileOutput::writeProgress renders at a fixed width
FileWidth == 80

\* heap addresses: any placement of the sink objects
Addresses == {a \in [Sinks -> 1..Cardinality(Sinks)] :
                \A s, t \in Sinks : s # t => a[s] # a[t]}

\* the message texts and the progress inputs the operations are called with
Lines == {<<>>, <<"h", "i">>}
Durations == {Dur(0, 0), Dur(5, 0), Dur(125, 500000)}
Widths == {0, 30, 80}

\* namespace ansi: ESC stands for the character \033
RESET == <<"ESC", "[", "0", ";", "3", "7", "m">>
LINE_BEGIN == <<"ESC", "[", "0", "G">>
ERASE_TO_END_OF_LINE == <<"ESC", "[", "K">>
RED == <<"ESC", "[", "0", ";", "3", "1", "m">>
GREEN == <<"ESC", "[", "0", ";", "3", "2", "m">>
CYAN == <<"ESC", "[", "0", ";", "3", "6", "m">>
BOLD_YELLOW == <<"ESC", "[", "1", ";", "3", "3", "m">>
BOLD_CYAN == <<"ESC", "[", "1", ";", "3", "6", "m">>

\* nowToString("%H:%M:%S "): two digits each for hour, minute and second,
\* and a space; which digits is the time of day
nowToString == <<"H", "H", ":", "M", "M", ":", "S", "S", " ">>

severityToString(severity) ==
    CASE severity = "None" -> <<>>
      [] severity = "Success" -> <<"S", "U", "C", "C", "E", "S", "S">>
      [] severity = "Info" -> <<"I", "N", "F", "O">>
      [] severity = "Warning" -> <<"W", "A", "R", "N", "I", "N", "G">>
      [] severity = "Debug" -> <<"D", "E", "B", "U", "G">>
      [] severity = "Error" -> <<"E", "R", "R", "O", "R">>
      [] severity = "Progress" -> <<"P", "R", "O", "G", "R", "E", "S", "S">>

\* the switch of ConsoleOutput::writeLine
colorOf(severity) ==
    CASE severity = "None" -> <<>>
      [] severity = "Success" -> GREEN
      [] severity = "Info" -> CYAN
      [] severity = "Warning" -> BOLD_YELLOW
      [] severity = "Debug" -> BOLD_CYAN
      [] severity = "Error" -> RED
      [] severity = "Progress" -> CYAN

\* the severity column of the console is nine characters wide
SeverityColumn == 9

\* the text without its end
consoleBody(severity, line) ==
    (IF severity # "None" THEN nowToString ELSE <<>>)
    \o (IF mSupportsAnsiControlSequences THEN colorOf(severity) ELSE <<>>)
    \o (IF severity # "None"
        THEN padFromRight(severityToString(severity), SeverityColumn, " ")
        ELSE severityToString(severity))
    \o (IF mSupportsAnsiControlSequences /\ severity # "None" THEN RESET ELSE <<>>)
    \o line
    \o (IF mSupportsAnsiControlSequences THEN ERASE_TO_END_OF_LINE \o RESET ELSE <<>>)

\* the end of a console text that moves the cursor back on every Progress
\* line, whether or not the terminal takes control sequences
consoleEnd_lineBegin(severity, body) ==
    IF severity = "Progress" THEN LINE_BEGIN ELSE <<"\n">>

\* the end of a console text: back to the line's start for a Progress line on
\* a terminal that takes control sequences, a line break otherwise (the
\* ostringstream-member version of the header adds none after one)
consoleEnd(severity, body) ==
    IF mSupportsAnsiControlSequences /\ severity = "Progress" THEN LINE_BEGIN
    ELSE IF build = "member" /\ body # <<>> /\ body[Len(body)] = "\n" THEN <<>>
    ELSE <<"\n">>

\* textOut of ConsoleOutput::writeLine
consoleText(severity, line) ==
    consoleBody(severity, line) \o consoleEnd(severity, consoleBody(severity, line))

\* textOut of FileOutput::writeLine
fileText(severity, line) ==
    (IF severity # "None" THEN nowToString ELSE <<>>)
    \o severityToString(severity)
    \o (IF severity # "None" THEN <<" ">> ELSE <<>>)
    \o line \o <<"\n">>

\* std::strftime returns 0 in the sink's writeLine: timeToString throws
Throws(sink, severity) == severity # "None" /\ sink \in strftimeFails

\* writeLine: one call on the sink, with the severity and the line it was
\* given, the text it put on its stream, whether the stream was flushed
\* (stream << textOut << std::flush on the console, mFile << textOut on a
\* file), and whether it threw instead
writeLine(sink, severity, line) ==
    IF Throws(sink, severity)
    THEN <<[sink |-> sink, fn |-> "writeLine", severity |-> severity, line |-> line,
            text |-> <<>>, flushed |-> FALSE, threw |-> TRUE]>>
    ELSE <<[sink |-> sink, fn |-> "writeLine", severity |-> severity, line |-> line,
            text |-> IF IsConsole(sink) THEN consoleText(severity, line)
                     ELSE fileText(severity, line),
            flushed |-> IsConsole(sink), threw |-> FALSE]>>

\* writeProgress: renders the bar (the console at the terminal's width, a file at
\* 80 columns) and hands it to the sink's own writeLine
writeProgress(sink, current, total, duration, consoleWidth) ==
    <<[sink |-> sink, fn |-> "writeProgress", current |-> current, total |-> total,
       duration |-> duration]>>
    \o writeLine(sink, "Progress",
                 progressBar(current, total, duration,
                             IF IsConsole(sink) THEN consoleWidth ELSE FileWidth))

-----------------------------------------------------------------------------
(* Logger *)

\* a sequence container instead of the set: iteration in insertion order
InRegistrationOrder(outputs) == SelectSeq(registered, LAMBDA s : s \in outputs)

RECURSIVE InOrder(_)
\* iteration over std::set<std::shared_ptr<IOutput>>: ascending pointer value
InOrder(outputs) ==
    IF outputs = {} THEN <<>>
    ELSE LET first == CHOOSE s \in outputs : \A t \in outputs : addr[s] <= addr[t]
         IN  <<first>> \o InOrder(outputs \ {first})

RECURSIVE Flatten(_)
Flatten(seqs) == IF seqs = <<>> THEN <<>> ELSE Head(seqs) \o Flatten(Tail(seqs))

\* log without the mHiddenTypes.count(severity) early return
log_nogate(severity, line) ==
    LET order == InOrder(mOutputs)
    IN  Flatten([i \in 1..Len(order) |-> writeLine(order[i], severity, line)])

\* log that leaves the loop after the first sink
log_first(severity, line) ==
    IF severity \in mHiddenTypes \/ mOutputs = {} THEN <<>>
    ELSE writeLine(InOrder(mOutputs)[1], severity, line)

RECURSIVE UntilThrow(_)
\* the loop over the sinks: an exception of one leaves the loop
UntilThrow(callSeqs) ==
    IF callSeqs = <<>> THEN <<>>
    ELSE LET first == Head(callSeqs)
         IN  IF first[Len(first)].threw THEN first
             ELSE first \o UntilThrow(Tail(callSeqs))

\* log that catches a sink's exception and goes on with the next sink
log_swallow(severity, line) ==
    IF severity \in mHiddenTypes THEN <<>>
    ELSE LET order == InOrder(mOutputs)
         IN  Flatten([i \in 1..Len(order) |-> writeLine(order[i], severity, line)])

\* Logger::log: the IOutput calls it makes
log(severity, line) ==
    IF severity \in mHiddenTypes THEN <<>>
    ELSE LET order == InOrder(mOutputs)
         IN  UntilThrow([i \in 1..Len(order) |-> writeLine(order[i], severity, line)])

\* logProgress gated like an Info message
logProgress_gateInfo(current, total, duration, consoleWidth) ==
    IF "Info" \in mHiddenTypes THEN <<>>
    ELSE LET order == InOrder(mOutputs)
         IN  Flatten([i \in 1..Len(order) |->
                        writeProgress(order[i], current, total, duration, consoleWidth)])

\* logProgress that casts the duration to whole seconds
logProgress_wholeSeconds(current, total, duration, consoleWidth) ==
    IF "Progress" \in mHiddenTypes THEN <<>>
    ELSE LET order == InOrder(mOutputs)
         IN  UntilThrow([i \in 1..Len(order) |->
                        writeProgress(order[i], current, total,
                                      Dur(duration.sec, 0), consoleWidth)])

\* Logger::logProgress: the IOutput calls it makes
logProgress(current, total, duration, consoleWidth) ==
    IF "Progress" \in mHiddenTypes THEN <<>>
    ELSE LET order == InOrder(mOutputs)
         IN  UntilThrow([i \in 1..Len(order) |->
                        writeProgress(order[i], current, total, duration, consoleWidth)])

Without(seq, x) == SelectSeq(seq, LAMBDA y : y # x)

\* addOutput that assigns the set instead of inserting into it
addOutput_assign(output) ==
    /\ mOutputs' = {output}
    /\ registered' = <<output>>
    /\ op' = [name |-> "addOutput", output |-> output, present |-> output \in mOutputs]
    /\ calls' = <<>>
    /\ UNCHANGED <<sinkEnv, statics, handleVars,
                   build, addr, mHiddenTypes, streams, bar>>

addOutput(output) ==
    /\ mOutputs' = mOutputs \cup {output}
    /\ registered' = IF output \in mOutputs THEN registered ELSE Append(registered, output)
    /\ op' = [name |-> "addOutput", output |-> output, present |-> output \in mOutputs]
    /\ calls' = <<>>
    /\ UNCHANGED <<sinkEnv, statics, handleVars,
                   build, addr, mHiddenTypes, streams, bar>>

\* removeOutput that clears the whole set
removeOutput_clear(output) ==
    /\ mOutputs' = {}
    /\ registered' = <<>>
    /\ op' = [name |-> "removeOutput", output |-> output, present |-> output \in mOutputs]
    /\ calls' = <<>>
    /\ UNCHANGED <<sinkEnv, statics, handleVars,
                   build, addr, mHiddenTypes, streams, bar>>

removeOutput(output) ==
    /\ mOutputs' = mOutputs \ {output}
    /\ registered' = Without(registered, output)
    /\ op' = [name |-> "removeOutput", output |-> output, present |-> output \in mOutputs]
    /\ calls' = <<>>
    /\ UNCHANGED <<sinkEnv, statics, handleVars,
                   build, addr, mHiddenTypes, streams, bar>>

hideType(severity) ==
    /\ mHiddenTypes' = mHiddenTypes \cup {severity}
    /\ op' = [name |-> "hideType", severity |-> severity]
    /\ calls' = <<>>
    /\ UNCHANGED <<sinkEnv, statics, handleVars,
                   build, addr, mOutputs, registered, streams, bar>>

showType(severity) ==
    /\ mHiddenTypes' = mHiddenTypes \ {severity}
    /\ op' = [name |-> "showType", severity |-> severity]
    /\ calls' = <<>>
    /\ UNCHANGED <<sinkEnv, statics, handleVars,
                   build, addr, mOutputs, registered, streams, bar>>

Log(severity, line) ==
    /\ op' = [name |-> "log", severity |-> severity, line |-> line]
    /\ calls' = log(severity, line)
    /\ UNCHANGED <<sinkEnv, statics, handleVars,
                   build, addr, mOutputs, mHiddenTypes, registered, streams, bar>>

LogProgress(current, total, duration, consoleWidth) ==
    /\ op' = [name |-> "logProgress", current |-> current, total |-> total,
              duration |-> duration, consoleWidth |-> consoleWidth]
    /\ calls' = logProgress(current, total, duration, consoleWidth)
    /\ UNCHANGED <<sinkEnv, statics, handleVars,
                   build, addr, mOutputs, mHiddenTypes, registered, streams, bar>>

-----------------------------------------------------------------------------
(* Specification of the Logger and its sinks *)

NoStreams == [i \in {"A", "B"} |-> [state |-> "unborn"]]
NoBar == [done |-> FALSE]

\* neither accessor used yet: both statics uninitialized, no console object.
\* built and torn: the statics in the order their construction completed and
\* in the order they were destroyed; owners: the shared_ptr owners of the
\* ConsoleOutput object, held: the Logger's set is one of them; consoles,
\* loggers: the objects constructed so far
NoStatics == [consoleOutput |-> "uninitialized", logger |-> "uninitialized",
              built |-> <<>>, torn |-> <<>>, owners |-> 0, held |-> FALSE,
              object |-> "none", consoles |-> 0, loggers |-> 0, exiting |-> FALSE]

NoProgress == [state |-> "none"]

\* a terminal that takes ANSI control sequences and a std::strftime that
\* works; the global accessors and the progress handle unused
InitOthers ==
    /\ mSupportsAnsiControlSequences = TRUE
    /\ strftimeFails = {}
    /\ statics = NoStatics
    /\ progress = NoProgress
    /\ clock = 0

\* Logger() hides Debug under NDEBUG; Logger::global() registers the console
InitLogger ==
    /\ addr \in Addresses
    /\ mHiddenTypes \in {{}, {"Debug"}}
    /\ mOutputs \in {{}, {"console"}}
    /\ registered = IF mOutputs = {} THEN <<>> ELSE <<"console">>
    /\ op = [name |-> "construct"]
    /\ calls = <<>>

Init ==
    /\ InitLogger
    /\ build = "unique_ptr"
    /\ InitOthers
    /\ streams = NoStreams
    /\ bar = NoBar

AddOutput == \E output \in Sinks : addOutput(output)
RemoveOutput == \E output \in Sinks : removeOutput(output)
HideType == \E severity \in ESeverity : hideType(severity)
ShowType == \E severity \in ESeverity : showType(severity)
LogLine == \E severity \in ESeverity, line \in Lines : Log(severity, line)
LogProgressBar ==
    \E total \in {1, MaxTotal} : \E current \in {1, total} :
        \E duration \in {Dur(5, 0)}, consoleWidth \in {0, 80} :
            LogProgress(current, total, duration, consoleWidth)

Next ==
    \/ AddOutput
    \/ RemoveOutput
    \/ HideType
    \/ ShowType
    \/ LogLine
    \/ LogProgressBar

Spec == Init /\ [][Next]_vars

-----------------------------------------------------------------------------
(* Properties of the Logger *)

\* the calls the last operation made on one sink, in call order
CallsOn(sink) == SelectSeq(calls, LAMBDA c : c.sink = sink)

\* the last operation was a log call that passed the hidden-set gate
VisibleLog == op.name = "log" /\ op.severity \notin mHiddenTypes

\* a severity enters the hidden set by hideType and leaves it by showType only
HiddenFollowsHideShow ==
    /\ op'.name = "hideType" => mHiddenTypes' = mHiddenTypes \cup {op'.severity}
    /\ op'.name = "showType" => mHiddenTypes' = mHiddenTypes \ {op'.severity}
    /\ op'.name \notin {"hideType", "showType"} => mHiddenTypes' = mHiddenTypes

HiddenLogWritesNothing ==
    op.name = "log" /\ op.severity \in mHiddenTypes => calls = <<>>

ShownLogWritesEverySink ==
    VisibleLog =>
        \A sink \in mOutputs : CallsOn(sink) = writeLine(sink, op.severity, op.line)

\* C1: a severity is hidden exactly from hideType(s) to the next showType(s);
\* log(s, text) makes no sink call while s is hidden, and writes (s, text) to
\* every registered sink when s is not hidden (again after showType(s)).
C1_HideShowGate ==
    /\ [][HiddenFollowsHideShow]_vars
    /\ [](HiddenLogWritesNothing /\ ShownLogWritesEverySink)

\* a log of Info, hidden by hideType, with both sinks registered, wrote nothing
C1_Witness ==
    /\ op.name = "log" /\ op.severity = "Info" /\ "Info" \in mHiddenTypes
    /\ mOutputs = Sinks /\ calls = <<>>

\* what a log or logProgress call owes one sink, whatever else is registered
Owed(sink) ==
    IF op.name = "log" THEN
        IF op.severity \in mHiddenTypes THEN <<>>
        ELSE writeLine(sink, op.severity, op.line)
    ELSE
        IF "Progress" \in mHiddenTypes THEN <<>>
        ELSE writeProgress(sink, op.current, op.total, op.duration, op.consoleWidth)

RemoveTakesOnlyThatSink ==
    op'.name = "removeOutput" =>
        /\ op'.output \notin mOutputs'
        /\ mOutputs' \ {op'.output} = mOutputs \ {op'.output}

OnlyAddRegisters ==
    \A sink \in Sinks :
        sink \notin mOutputs /\ sink \in mOutputs' =>
            op'.name = "addOutput" /\ op'.output = sink

DeliveryPerSink ==
    op.name \in {"log", "logProgress"} =>
        \A sink \in Sinks :
            CallsOn(sink) = IF sink \in mOutputs THEN Owed(sink) ELSE <<>>

\* C2: removeOutput(A) unregisters A and no other sink, A stays unregistered
\* until addOutput(A), an unregistered sink receives no call from log or
\* logProgress, and every registered sink receives exactly the calls it would
\* receive whatever the other sinks are.
C2_RemoveStopsDelivery ==
    /\ [][RemoveTakesOnlyThatSink /\ OnlyAddRegisters]_vars
    /\ []DeliveryPerSink

\* the console was removed while the file stayed registered
C2_Witness ==
    /\ op.name = "removeOutput" /\ op.output = "console" /\ op.present
    /\ mOutputs = {"file"}

\* C6: a log call of a visible severity makes one writeLine(severity, text)
\* call per registered sink and no other call; none with an empty sink set.
C6_LogWritesEachSinkOnce ==
    VisibleLog =>
        /\ Len(calls) = Cardinality(mOutputs)
        /\ \A i \in 1..Len(calls) :
            /\ calls[i].sink \in mOutputs
            /\ calls[i].fn = "writeLine"
            /\ calls[i].severity = op.severity
            /\ calls[i].line = op.line
        /\ \A sink \in mOutputs :
            Cardinality({i \in 1..Len(calls) : calls[i].sink = sink}) = 1

\* a visible log of a non-empty text reached both sinks
C6_Witness ==
    /\ VisibleLog /\ op.line # <<>> /\ mOutputs = Sinks /\ Len(calls) = 2

\* the sinks the last operation called writeLine on, in call order
WrittenSinks ==
    LET w == SelectSeq(calls, LAMBDA c : c.fn = "writeLine")
    IN  [i \in 1..Len(w) |-> w[i].sink]

\* C7 as stated: a log call writes the sinks in registration order.
C7_RegistrationOrder == VisibleLog => WrittenSinks = registered

\* C7 amended: a log call writes the registered sinks in ascending order of
\* their addresses, whatever the order in which they were added.
C7_AddressOrder ==
    VisibleLog =>
        /\ {WrittenSinks[i] : i \in 1..Len(WrittenSinks)} = mOutputs
        /\ \A i, j \in 1..Len(WrittenSinks) :
            i < j => addr[WrittenSinks[i]] < addr[WrittenSinks[j]]

\* both sinks were written, the one registered last first
C7_Witness ==
    /\ VisibleLog /\ Len(WrittenSinks) = 2 /\ Len(registered) = 2
    /\ WrittenSinks[1] = registered[2]

\* C8: logProgress makes no call when Progress is hidden; otherwise, whatever
\* else is hidden, it calls writeProgress(current, total, duration) once on
\* every registered sink, each followed by that sink's writeLine with
\* severity Progress.
C8_ProgressGate ==
    op.name = "logProgress" =>
        IF "Progress" \in mHiddenTypes THEN calls = <<>>
        ELSE
            /\ Len(calls) = 2 * Cardinality(mOutputs)
            /\ \A sink \in mOutputs :
                LET c == CallsOn(sink)
                IN  /\ Len(c) = 2
                    /\ c[1].fn = "writeProgress"
                    /\ c[1].current = op.current
                    /\ c[1].total = op.total
                    /\ c[1].duration = op.duration
                    /\ c[2].fn = "writeLine"
                    /\ c[2].severity = "Progress"

\* a progress update reached both sinks while Info and Debug were hidden
C8_Witness ==
    /\ op.name = "logProgress" /\ {"Info", "Debug"} \subseteq mHiddenTypes
    /\ "Progress" \notin mHiddenTypes /\ mOutputs = Sinks /\ Len(calls) = 4

AddRemoveIdempotent ==
    /\ op'.name = "addOutput" /\ op'.output \in mOutputs => mOutputs' = mOutputs
    /\ op'.name = "addOutput" => mOutputs' = mOutputs \cup {op'.output}
    /\ op'.name = "removeOutput" /\ op'.output \notin mOutputs => mOutputs' = mOutputs
    /\ op'.name = "removeOutput" => op'.output \notin mOutputs'

NoSinkWrittenTwice ==
    VisibleLog =>
        \A sink \in Sinks :
            Cardinality({i \in 1..Len(calls) : calls[i].sink = sink}) <= 1

\* C9: addOutput of a registered sink and removeOutput of an unregistered one
\* leave the sink set unchanged, one removeOutput leaves the sink unregistered
\* however often it was added, and a log call writes no sink twice.
C9_AddRemoveIdempotent ==
    /\ [][AddRemoveIdempotent]_vars
    /\ []NoSinkWrittenTwice

\* addOutput was called for a sink that was already registered
C9_Witness ==
    /\ op.name = "addOutput" /\ op.present /\ mOutputs = Sinks

-----------------------------------------------------------------------------
(* LogStream *)

StreamIds == {"A", "B"}

\* the values handed to operator<<: string literals and integers
Values == {[kind |-> "text", text |-> <<"a", "b">>, int |-> 0],
           [kind |-> "int", text |-> <<>>, int |-> 42]}

\* what std::ostringstream::operator<< writes for a value
Format(value) == IF value.kind = "int" THEN to_string(value.int) ELSE value.text

\* the text a sequence of operator<< calls leaves in an empty buffer
Accumulated(values) == Flatten([i \in 1..Len(values) |-> Format(values[i])])

\* LogStream(Logger*, ESeverity): an empty buffer; the unique_ptr version
\* allocates it.  hasText is mText != nullptr (always TRUE for the member
\* version).  History: appended, the values appended to the message this
\* object holds; logged, the Logger::log calls its destructor made; source,
\* the stream it was move-constructed from; movedFrom, whether it was moved
\* from; born, the Logger's gate for the severity and its sinks at construction;
\* replaced, the severity and text the object held when it was move-assigned to.
NewStream(severity) ==
    [state |-> "alive", mSeverity |-> severity, mText |-> <<>>, hasText |-> TRUE,
     appended |-> <<>>, logged |-> <<>>, source |-> "none", movedFrom |-> FALSE,
     born |-> [hidden |-> severity \in mHiddenTypes, outputs |-> mOutputs],
     replaced |-> <<>>]

Construct(i, severity) ==
    /\ streams[i].state = "unborn"
    /\ streams' = [streams EXCEPT ![i] = NewStream(severity)]
    /\ op' = [name |-> "LogStream", stream |-> i]
    /\ calls' = <<>>
    /\ UNCHANGED <<sinkEnv, statics, handleVars,
                   build, addr, mOutputs, mHiddenTypes, registered, bar>>

\* operator<< that inserts a separator before the element
StreamAppend_spaced(i, value) ==
    /\ streams[i].state = "alive"
    /\ streams[i].hasText
    /\ Len(streams[i].appended) < MaxAppend
    /\ streams' = [streams EXCEPT ![i].mText = @ \o <<" ">> \o Format(value),
                                  ![i].appended = Append(@, value)]
    /\ op' = [name |-> "operator<<", stream |-> i]
    /\ calls' = <<>>
    /\ UNCHANGED <<sinkEnv, statics, handleVars,
                   build, addr, mOutputs, mHiddenTypes, registered, bar>>

\* operator<<: mText << elem (*mText << elem needs a buffer: not on a
\* moved-from stream of the unique_ptr version)
StreamAppend(i, value) ==
    /\ streams[i].state = "alive"
    /\ streams[i].hasText
    /\ Len(streams[i].appended) < MaxAppend
    /\ streams' = [streams EXCEPT ![i].mText = @ \o Format(value),
                                  ![i].appended = Append(@, value)]
    /\ op' = [name |-> "operator<<", stream |-> i]
    /\ calls' = <<>>
    /\ UNCHANGED <<sinkEnv, statics, handleVars,
                   build, addr, mOutputs, mHiddenTypes, registered, bar>>

\* what a moved-from buffer may hold.  unique_ptr: nullptr.  ostringstream
\* member: a valid stream whose content the standard leaves open; the library
\* either took the characters or left them.
MovedFromTexts(text) == IF build = "unique_ptr" THEN {<<>>} ELSE {<<>>, text}

\* a defaulted move constructor that copies the unique_ptr's buffer and leaves
\* the source owning its text
MoveConstruct_keep(from, to) ==
    /\ streams[from].state = "alive"
    /\ streams[to].state = "unborn"
    /\ streams' = [streams EXCEPT
            ![to] = [NewStream(streams[from].mSeverity) EXCEPT
                        !.mText = streams[from].mText,
                        !.hasText = streams[from].hasText,
                        !.appended = streams[from].appended,
                        !.source = from],
            ![from].movedFrom = TRUE]
    /\ op' = [name |-> "LogStream(LogStream&&)", stream |-> to]
    /\ calls' = <<>>
    /\ UNCHANGED <<sinkEnv, statics, handleVars,
                   build, addr, mOutputs, mHiddenTypes, registered, bar>>

\* LogStream(LogStream&& other) = default: memberwise move
MoveConstruct(from, to) ==
    /\ streams[from].state = "alive"
    /\ streams[to].state = "unborn"
    /\ \E left \in MovedFromTexts(streams[from].mText) :
        streams' = [streams EXCEPT
            ![to] = [NewStream(streams[from].mSeverity) EXCEPT
                        !.mText = streams[from].mText,
                        !.hasText = streams[from].hasText,
                        !.appended = streams[from].appended,
                        !.source = from],
            ![from].mText = left,
            ![from].hasText = (build = "member"),
            ![from].movedFrom = TRUE]
    /\ op' = [name |-> "LogStream(LogStream&&)", stream |-> to]
    /\ calls' = <<>>
    /\ UNCHANGED <<sinkEnv, statics, handleVars,
                   build, addr, mOutputs, mHiddenTypes, registered, bar>>

\* the most move assignments one LogStream is the target of
MaxAssign == 1

\* LogStream& operator=(LogStream&& other) = default: memberwise move
\* assignment.  mSeverity is copied; the target's buffer is freed (unique_ptr)
\* or overwritten (ostringstream member) with what it holds, and the source's
\* buffer is left as after a move construction.
MoveAssign(from, to) ==
    /\ from # to
    /\ streams[from].state = "alive"
    /\ streams[to].state = "alive"
    /\ Len(streams[to].replaced) < MaxAssign
    /\ \E left \in MovedFromTexts(streams[from].mText) :
        streams' = [streams EXCEPT
            ![to].mSeverity = streams[from].mSeverity,
            ![to].mText = streams[from].mText,
            ![to].hasText = streams[from].hasText,
            ![to].appended = streams[from].appended,
            ![to].source = from,
            ![to].replaced = Append(@, [severity |-> streams[to].mSeverity,
                                        line |-> streams[to].mText]),
            ![from].mText = left,
            ![from].hasText = (build = "member"),
            ![from].movedFrom = TRUE]
    /\ op' = [name |-> "operator=(LogStream&&)", stream |-> to]
    /\ calls' = <<>>
    /\ UNCHANGED <<sinkEnv, statics, handleVars,
                   build, addr, mOutputs, mHiddenTypes, registered, bar>>

\* a destructor that forgets to forward the buffer
Destroy_silent(i) ==
    /\ streams[i].state = "alive"
    /\ streams' = [streams EXCEPT ![i].state = "dead"]
    /\ op' = [name |-> "~LogStream", stream |-> i]
    /\ calls' = <<>>
    /\ UNCHANGED <<sinkEnv, statics, handleVars,
                   build, addr, mOutputs, mHiddenTypes, registered, bar>>

\* a stream that asks the Logger at construction whether and where its line
\* will go, and writes there at destruction
Destroy_asConstructed(i) ==
    /\ streams[i].state = "alive"
    /\ streams' = [streams EXCEPT
            ![i].state = "dead",
            ![i].logged = Append(@, [severity |-> streams[i].mSeverity,
                                     line |-> streams[i].mText])]
    /\ calls' = IF streams[i].born.hidden THEN <<>>
                ELSE LET order == InOrder(streams[i].born.outputs)
                     IN  Flatten([k \in 1..Len(order) |->
                            writeLine(order[k], streams[i].mSeverity, streams[i].mText)])
    /\ op' = [name |-> "~LogStream", stream |-> i]
    /\ UNCHANGED <<sinkEnv, statics, handleVars,
                   build, addr, mOutputs, mHiddenTypes, registered, bar>>

\* ~LogStream: member version, mLogger->log(mSeverity, mText.str()) always;
\* unique_ptr version, only if (mText)
Destroy(i) ==
    /\ streams[i].state = "alive"
    /\ IF streams[i].hasText
       THEN /\ streams' = [streams EXCEPT
                    ![i].state = "dead",
                    ![i].logged = Append(@, [severity |-> streams[i].mSeverity,
                                             line |-> streams[i].mText])]
            /\ calls' = log(streams[i].mSeverity, streams[i].mText)
       ELSE /\ streams' = [streams EXCEPT ![i].state = "dead"]
            /\ calls' = <<>>
    /\ op' = [name |-> "~LogStream", stream |-> i]
    /\ UNCHANGED <<sinkEnv, statics, handleVars,
                   build, addr, mOutputs, mHiddenTypes, registered, bar>>

\* either version of the header may be the one compiled
InitStream ==
    /\ InitLogger
    /\ build \in {"member", "unique_ptr"}
    /\ InitOthers
    /\ streams = NoStreams
    /\ bar = NoBar

ConstructStream == \E i \in StreamIds, severity \in ESeverity : Construct(i, severity)
AppendValue == \E i \in StreamIds, value \in Values : StreamAppend(i, value)
MoveStream == \E from, to \in StreamIds : MoveConstruct(from, to)
DestroyStream == \E i \in StreamIds : Destroy(i)

NextStream ==
    \/ ConstructStream
    \/ AppendValue
    \/ MoveStream
    \/ DestroyStream

SpecStream == InitStream /\ [][NextStream]_vars

-----------------------------------------------------------------------------
(* Properties of LogStream *)

Born(i) == streams[i].state # "unborn"
Dead(i) == streams[i].state = "dead"

\* neither the source nor the target of a move construction
NeverMoved(i) == Born(i) /\ ~streams[i].movedFrom /\ streams[i].source = "none"

\* the one Logger::log call a stream owes: its severity and its appended
\* values, formatted and concatenated in append order
OwnLine(i) ==
    [severity |-> streams[i].mSeverity, line |-> Accumulated(streams[i].appended)]

\* C3: a LogStream that is never moved makes no Logger::log call while it is
\* alive and exactly one at its destruction, with its own severity and the
\* concatenation of its own appended values in append order; the sinks are
\* handed that text and no other.
C3_OneLogAtDestruction ==
    \A i \in StreamIds :
        /\ Born(i) /\ ~Dead(i) => streams[i].logged = <<>>
        /\ NeverMoved(i) /\ Dead(i) => streams[i].logged = <<OwnLine(i)>>
        /\ NeverMoved(i) /\ op.name = "~LogStream" /\ op.stream = i =>
            \A k \in 1..Len(calls) :
                /\ calls[k].fn = "writeLine"
                /\ calls[k].severity = streams[i].mSeverity
                /\ calls[k].line = Accumulated(streams[i].appended)

\* two unmoved streams of different severities, each with a text and an
\* integer appended in a different order, have both been destroyed
C3_Witness ==
    /\ \A i \in StreamIds : NeverMoved(i) /\ Dead(i) /\ Len(streams[i].appended) = 2
    /\ streams["A"].mSeverity = "Info" /\ streams["B"].mSeverity = "Warning"
    /\ streams["A"].logged[1].line = <<"a", "b", "4", "2">>
    /\ streams["B"].logged[1].line = <<"4", "2", "a", "b">>
    /\ calls # <<>>

IsPrefix(p, q) == Len(p) <= Len(q) /\ SubSeq(q, 1, Len(p)) = p

\* C4: in the unique_ptr version, after B is move-constructed from A, the
\* destruction of A makes no Logger::log call and the destruction of B makes
\* exactly one, with A's severity and A's text followed by what was appended
\* to B; the two destructions together make one call.
C4_MoveTransfersBuffer ==
    build = "unique_ptr" =>
        \A a, b \in StreamIds :
            Born(b) /\ streams[b].source = a =>
                /\ streams[a].logged = <<>>
                /\ IsPrefix(streams[a].appended, streams[b].appended)
                /\ streams[b].mSeverity = streams[a].mSeverity
                /\ Dead(b) => streams[b].logged = <<OwnLine(b)>>
                /\ Dead(a) /\ Dead(b) =>
                    Len(streams[a].logged) + Len(streams[b].logged) = 1

\* A held pending text when B was move-constructed from it, B was appended to
\* afterwards, and both have been destroyed
C4_Witness ==
    /\ build = "unique_ptr"
    /\ streams["B"].state = "dead" /\ streams["A"].state = "dead"
    /\ streams["B"].source = "A"
    /\ Len(streams["A"].appended) = 1 /\ Len(streams["B"].appended) = 2
    /\ streams["B"].mSeverity \notin mHiddenTypes

\* C5: in the std::ostringstream-member version, the destruction of a
\* moved-from LogStream makes no Logger::log call.
C5_MovedFromIsSilent ==
    build = "member" =>
        \A i \in StreamIds :
            Born(i) /\ streams[i].movedFrom /\ Dead(i) => streams[i].logged = <<>>

-----------------------------------------------------------------------------
(* The renderer on its own *)

BarDurations == {Dur(0, 0), Dur(5, 0), Dur(125, 500000), Dur(3661, 0), Dur(90000, 0)}

\* the inputs: total > 0, 0 < current <= total, any elapsed time, any width
InitBar ==
    /\ build = "unique_ptr"
    /\ InitOthers
    /\ addr = [sink \in Sinks |-> IF IsConsole(sink) THEN 1 ELSE 2]
    /\ mOutputs = {}
    /\ mHiddenTypes = {}
    /\ registered = <<>>
    /\ op = [name |-> "construct"]
    /\ calls = <<>>
    /\ streams = NoStreams
    /\ \E total \in 1..MaxTotal : \E current \in 1..total :
        \E duration \in BarDurations, width \in 0..MaxWidth :
            bar = [done |-> FALSE, current |-> current, total |-> total,
                   duration |-> duration, width |-> width]

Render ==
    /\ ~bar.done
    /\ bar' = [done |-> TRUE, current |-> bar.current, total |-> bar.total,
               duration |-> bar.duration, width |-> bar.width,
               line |-> progressBar(bar.current, bar.total, bar.duration, bar.width)]
    /\ op' = [name |-> "progressBar"]
    /\ UNCHANGED <<sinkEnv, statics, handleVars,
                   build, addr, mOutputs, mHiddenTypes, registered, calls, streams>>

NextBar == Render

SpecBar == InitBar /\ [][NextBar]_vars

BarLabel == labelOf(bar.current, bar.total, bar.duration)

\* "[", "]" and the space before the label
FrameChars == BracketChars + SpaceChars

\* C10 as stated: the rendered line is never longer than the width.
C10_NeverExceedsWidth == bar.done => Len(bar.line) <= bar.width

\* C10 amended: the line is never longer than the width when the width has
\* room for the label and the bar's frame, width >= 3 + Len(label); for a
\* narrower width the label is not truncated: the line is "[] " and the
\* label, 3 + Len(label) characters.
C10_WidthBoundWhenLabelFits ==
    bar.done =>
        /\ bar.width >= FrameChars + Len(BarLabel) => Len(bar.line) <= bar.width
        /\ bar.width < FrameChars + Len(BarLabel) =>
            Len(bar.line) = FrameChars + Len(BarLabel)

\* an 80-column line with a non-empty bar was rendered
C10_Witness ==
    /\ bar.done /\ bar.width = 80 /\ bar.current = 1 /\ bar.total = 2
    /\ Len(bar.line) > FrameChars + Len(BarLabel)
    /\ Len(bar.line) = 80 - PrefixChars

-----------------------------------------------------------------------------
(* The bar body *)

\* the characters between "[" and "]" of the rendered line
BarBody == SubSeq(bar.line, 2, Len(bar.line) - Len(BarLabel) - BracketChars)

BarUsableWidth == Max(0, bar.width - 21 - Len(BarLabel))

BarFilled == numFilledCharsOf(BarUsableWidth, bar.current, bar.total)

Count(ch, seq) == Cardinality({i \in 1..Len(seq) : seq[i] = ch})

\* a complete bar is usableWidth '=' characters and no '>'
CompleteBarIsFull ==
    bar.current = bar.total =>
        /\ Count("=", BarBody) = BarUsableWidth
        /\ Count(">", BarBody) = 0

\* C11 as stated: the body holds exactly one '>' whenever 0 < current < total,
\* and usableWidth '=' and no '>' when current = total.
C11_ArrowUntilComplete ==
    bar.done =>
        /\ (0 < bar.current /\ bar.current < bar.total) => Count(">", BarBody) = 1
        /\ CompleteBarIsFull

\* C11 amended: the body holds exactly one '>' when the number of filled
\* characters (int)round(usableWidth * fraction) is above 0 and below
\* usableWidth, and no '>' otherwise: with 0 < current < total the arrow is
\* missing when usableWidth = 0, when the filled characters round to 0 and when
\* they round to usableWidth; a complete bar is usableWidth '=' and no '>'.
C11_ArrowWhenPartlyFilled ==
    bar.done =>
        /\ Count(">", BarBody) =
            (IF 0 < BarFilled /\ BarFilled < BarUsableWidth THEN 1 ELSE 0)
        /\ CompleteBarIsFull

\* an incomplete 80-column bar with its arrow, after the filled part
C11_Witness ==
    /\ bar.done /\ bar.width = 80 /\ bar.current = 1 /\ bar.total = 2
    /\ Count(">", BarBody) = 1
    /\ BarBody[BarFilled + 1] = ">"

\* the '=' characters of the body
BarEquals == Count("=", BarBody)

\* n is usableWidth * current / total rounded to a nearest whole number
NearestFilled(usableWidth, n) ==
    LET diff == n * bar.total - usableWidth * bar.current
    IN  2 * diff <= bar.total /\ 2 * (0 - diff) <= bar.total

\* the body is usableWidth characters: filled '=', then the rest
BodyLayout(body, usableWidth, filled, rest) ==
    /\ Len(body) = usableWidth
    /\ \A i \in 1..Len(body) : i <= filled => body[i] = "="
    /\ \A i \in 1..Len(body) : i > filled => body[i] = rest[i - filled]

ArrowAndSpaces(usableWidth) == [i \in 1..usableWidth |-> IF i = 1 THEN ">" ELSE " "]

Spaces(usableWidth) == [i \in 1..usableWidth |-> " "]

\* C19 as stated: the body is usableWidth characters, '=' on [0, filled), and
\* whenever filled < usableWidth a '>' at index filled and spaces after it,
\* also when filled = 0.
C19_ArrowAlsoAtZero ==
    bar.done =>
        LET body == BarBody
            usableWidth == BarUsableWidth
        IN  \E filled \in {n \in 0..usableWidth : NearestFilled(usableWidth, n)} :
                BodyLayout(body, usableWidth, filled, ArrowAndSpaces(usableWidth))

\* C19 amended: the body is usableWidth characters, '=' on [0, filled) with
\* filled = usableWidth * current / total rounded to a nearest whole number;
\* when 0 < filled < usableWidth index filled holds '>' and every later index
\* a space; when filled = 0 the whole body is spaces, without an arrow; the
\* arrow is absent when filled = 0 and when filled = usableWidth.
C19_ArrowOnlyAfterFilledPart ==
    bar.done =>
        LET body == BarBody
            usableWidth == BarUsableWidth
        IN  \E filled \in {n \in 0..usableWidth : NearestFilled(usableWidth, n)} :
                BodyLayout(body, usableWidth, filled,
                           IF filled = 0 THEN Spaces(usableWidth)
                           ELSE ArrowAndSpaces(usableWidth))

\* a bar that rounds to no filled character: all spaces; and the layout of a
\* partly filled one is reached too
C19_Witness ==
    /\ bar.done /\ bar.width = 50 /\ bar.current = 1 /\ bar.total = 4
    /\ BarUsableWidth > 0
    /\ BarFilled > 0 /\ BarFilled < BarUsableWidth
    /\ BarBody[BarFilled] = "=" /\ BarBody[BarFilled + 1] = ">"
    /\ BarBody[BarUsableWidth] = " "

-----------------------------------------------------------------------------
(* The percentage alone, over totals large enough for the double product
   fraction * 100 to land on the other side of a half *)

InitPercent ==
    /\ build = "unique_ptr"
    /\ InitOthers
    /\ addr = [sink \in Sinks |-> IF IsConsole(sink) THEN 1 ELSE 2]
    /\ mOutputs = {}
    /\ mHiddenTypes = {}
    /\ registered = <<>>
    /\ op = [name |-> "construct"]
    /\ calls = <<>>
    /\ streams = NoStreams
    /\ \E total \in 1..MaxPercentTotal : \E current \in 0..total :
        bar = [done |-> FALSE, current |-> current, total |-> total]

ComputePercentage ==
    /\ ~bar.done
    /\ bar' = [done |-> TRUE, current |-> bar.current, total |-> bar.total,
               percentage |-> percentageOf(bar.current, bar.total)]
    /\ op' = [name |-> "percentage"]
    /\ UNCHANGED <<sinkEnv, statics, handleVars,
                   build, addr, mOutputs, mHiddenTypes, registered, calls, streams>>

NextPercent == ComputePercentage

SpecPercent == InitPercent /\ [][NextPercent]_vars

\* C12: for total > 0 and 0 <= current <= total the percentage is
\* 100 * current / total rounded to the nearest integer, halves away from
\* zero, and lies in [0, 100].
C12_PercentageIsNearest ==
    bar.done =>
        /\ bar.percentage = percentageOf_exact(bar.current, bar.total)
        /\ bar.percentage \in 0..100

\* the part of C12 the code keeps: the percentage lies in [0, 100] and is a
\* nearest integer of 100 * current / total or, at a half, the one below
PercentageWithinOne ==
    bar.done =>
        /\ bar.percentage \in 0..100
        /\ bar.percentage \in {percentageOf_exact(bar.current, bar.total),
                               percentageOf_exact(bar.current, bar.total) - 1}
        /\ bar.percentage # percentageOf_exact(bar.current, bar.total) =>
            (2 * 100 * bar.current) % (2 * bar.total) = bar.total

-----------------------------------------------------------------------------
(* durationToString alone *)

\* the whole seconds of the inputs: up to MaxDays days and hours, minutes and
\* seconds at both ends of their ranges
DurationSeconds ==
    {d * SecPerDay + h * SecPerHour + m * SecPerMinute + s :
        d \in 0..MaxDays, h \in {0, 1, 10, 23}, m \in {0, 1, 2, 59}, s \in {0, 1, 5, 59}}

InitDuration ==
    /\ build = "unique_ptr"
    /\ InitOthers
    /\ addr = [sink \in Sinks |-> IF IsConsole(sink) THEN 1 ELSE 2]
    /\ mOutputs = {}
    /\ mHiddenTypes = {}
    /\ registered = <<>>
    /\ op = [name |-> "construct"]
    /\ calls = <<>>
    /\ streams = NoStreams
    /\ \E sec \in DurationSeconds, usec \in {0, UsecPerSec - 1} :
        bar = [done |-> FALSE, duration |-> Dur(sec, usec)]

FormatDuration ==
    /\ ~bar.done
    /\ bar' = [done |-> TRUE, duration |-> bar.duration,
               text |-> durationToString(bar.duration)]
    /\ op' = [name |-> "durationToString"]
    /\ UNCHANGED <<sinkEnv, statics, handleVars,
                   build, addr, mOutputs, mHiddenTypes, registered, calls, streams>>

NextDuration == FormatDuration

SpecDuration == InitDuration /\ [][NextDuration]_vars

\* a unit's count in two digits
TwoDigits(n) == IF n < 10 THEN <<"0">> \o to_string(n) ELSE to_string(n)

RECURSIVE Tiers(_, _)
\* the units from the k-th on: count, zero-padded, and unit letter
Tiers(units, k) ==
    IF k > Len(units) THEN <<>>
    ELSE TwoDigits(units[k].n) \o <<units[k].unit>> \o Tiers(units, k + 1)

\* the tiered form of n whole seconds
TieredForm(n) ==
    LET units == << [n |-> n \div 86400, unit |-> "d"],
                    [n |-> (n % 86400) \div 3600, unit |-> "h"],
                    [n |-> (n % 3600) \div 60, unit |-> "m"],
                    [n |-> n % 60, unit |-> "s"] >>
        coarser == {k \in 1..3 : units[k].n > 0}
        lead == IF coarser = {} THEN 4
                ELSE CHOOSE k \in coarser : \A l \in coarser : k <= l
    IN  to_string(units[lead].n) \o <<units[lead].unit>> \o Tiers(units, lead + 1)

\* C17: durationToString of n whole seconds is the tiered form: the coarsest
\* non-zero unit among days, hours and minutes leads unpadded (seconds when all
\* are zero), every finer unit follows zero-padded to two digits; 125 s is
\* "2m05s", 3661 s "1h01m01s", 90000 s "1d01h00m00s" and 0 s "0s".
C17_TieredDuration ==
    bar.done =>
        /\ bar.text = TieredForm(bar.duration.sec)
        /\ bar.duration.sec = 125 => bar.text = <<"2", "m", "0", "5", "s">>
        /\ bar.duration.sec = 3661 =>
            bar.text = <<"1", "h", "0", "1", "m", "0", "1", "s">>
        /\ bar.duration.sec = 90000 =>
            bar.text = <<"1", "d", "0", "1", "h", "0", "0", "m", "0", "0", "s">>
        /\ bar.duration.sec = 0 => bar.text = <<"0", "s">>

\* a day, an hour and no minutes or seconds formatted, with its fraction of a
\* second cut off
C17_Witness ==
    /\ bar.done /\ bar.duration = Dur(90000, UsecPerSec - 1)
    /\ bar.text = <<"1", "d", "0", "1", "h", "0", "0", "m", "0", "0", "s">>

-----------------------------------------------------------------------------
(* progressBar on malformed input: total = 0, current = 0 or current > total.
   Nothing validates the input. A double that is infinite or not a number is
   converted to an integer (the percentage, the casts of durationToString, the
   filled characters) and a body index at or past usableWidth is written:
   both are undefined behaviour, after which the call either returns an
   unspecified line or does not return. *)

\* (double)current / total: finite, infinite or not a number
fractionKind(current, total) ==
    IF total # 0 THEN "finite" ELSE IF current # 0 THEN "inf" ELSE "nan"

\* duration * (1 / fraction): 1 / 0.0 is infinite, 1 / infinite is 0, and
\* 0 * infinite is not a number
projectedKind(current, total, duration) ==
    IF fractionKind(current, total) = "nan" THEN "nan"
    ELSE IF fractionKind(current, total) = "inf" THEN "finite"
    ELSE IF current # 0 THEN "finite"
    ELSE IF duration = Dur(0, 0) THEN "nan" ELSE "inf"

\* the run of progressBar up to its first undefined operation, if any
runOf(current, total, duration, width) ==
    LET projected == projectedKind(current, total, duration)
    IN  IF fractionKind(current, total) # "finite"
        THEN [ub |-> "percentage", projected |-> projected]
        ELSE IF projected # "finite"
        THEN [ub |-> "projectedDuration", projected |-> projected]
        ELSE LET label == labelOf(current, total, duration)
                 usableWidth == usableWidthOf(label, width)
                 numFilledChars == numFilledCharsOf(usableWidth, current, total)
             IN  [ub |-> IF numFilledChars > usableWidth THEN "body" ELSE "none",
                  projected |-> projected,
                  usableWidth |-> usableWidth,
                  numFilledChars |-> numFilledChars]

\* what a call can end in: without undefined behaviour it returns its line
Outcomes(run) == IF run.ub = "none" THEN {"returned"} ELSE {"returned", "crashed"}

MalformedWidths == {0, 40, 80}

InitMalformed ==
    /\ build = "unique_ptr"
    /\ InitOthers
    /\ addr = [sink \in Sinks |-> IF IsConsole(sink) THEN 1 ELSE 2]
    /\ mOutputs = {}
    /\ mHiddenTypes = {}
    /\ registered = <<>>
    /\ op = [name |-> "construct"]
    /\ calls = <<>>
    /\ streams = NoStreams
    /\ \E total \in 0..MaxTotal, current \in 0..(MaxTotal + 1) :
        \E duration \in {Dur(0, 0), Dur(5, 0)}, width \in MalformedWidths :
            /\ total = 0 \/ current = 0 \/ current > total
            /\ bar = [done |-> FALSE, current |-> current, total |-> total,
                      duration |-> duration, width |-> width]

RenderMalformed ==
    /\ ~bar.done
    /\ LET run == runOf(bar.current, bar.total, bar.duration, bar.width)
       IN  \E outcome \in Outcomes(run) :
            bar' = [done |-> TRUE, current |-> bar.current, total |-> bar.total,
                    duration |-> bar.duration, width |-> bar.width,
                    run |-> run, outcome |-> outcome,
                    line |-> IF run.ub = "none"
                             THEN progressBar(bar.current, bar.total,
                                              bar.duration, bar.width)
                             ELSE <<>>]
    /\ op' = [name |-> "progressBar"]
    /\ UNCHANGED <<sinkEnv, statics, handleVars,
                   build, addr, mOutputs, mHiddenTypes, registered, calls, streams>>

NextMalformed == RenderMalformed

SpecMalformed == InitMalformed /\ [][NextMalformed]_vars

\* C20: on malformed input progressBar runs to completion and returns a line,
\* the number of filled characters never exceeds the body length (every
\* written index is below usableWidth), and the projected duration handed to
\* durationToString is finite.
C20_MalformedNeverCrashes ==
    bar.done =>
        /\ bar.outcome = "returned"
        /\ bar.run.projected = "finite"
        /\ bar.run.ub \in {"none", "body"} =>
            bar.run.numFilledChars <= bar.run.usableWidth

-----------------------------------------------------------------------------
(* The sinks: what writeLine puts on its stream, on any terminal, with either
   version of the header, and with a std::strftime that may report failure *)

InitSink ==
    /\ InitLogger
    /\ build \in {"member", "unique_ptr"}
    /\ mSupportsAnsiControlSequences \in BOOLEAN
    /\ strftimeFails \in SUBSET Sinks
    /\ statics = NoStatics
    /\ progress = NoProgress
    /\ clock = 0
    /\ streams = NoStreams
    /\ bar = NoBar

NextSink ==
    \/ AddOutput
    \/ RemoveOutput
    \/ LogLine
    \/ LogProgressBar

SpecSink == InitSink /\ [][NextSink]_vars

EndsWith(text, suffix) ==
    /\ Len(text) >= Len(suffix)
    /\ SubSeq(text, Len(text) - Len(suffix) + 1, Len(text)) = suffix

\* the writeLine calls of the last operation that wrote on the console
ConsoleWrites ==
    SelectSeq(calls, LAMBDA c : c.fn = "writeLine" /\ IsConsole(c.sink) /\ ~c.threw)

\* C13 as stated: the console's text ends with the cursor-to-line-start
\* sequence and no newline when the severity is Progress and with a newline
\* for every other severity, whatever the ANSI-support flag.
C13_ProgressEndsAtLineStart ==
    \A k \in 1..Len(ConsoleWrites) :
        LET c == ConsoleWrites[k]
        IN  IF c.severity = "Progress"
            THEN EndsWith(c.text, LINE_BEGIN) /\ ~EndsWith(c.text, <<"\n">>)
            ELSE EndsWith(c.text, <<"\n">>)

\* C13 amended: the console's text ends with the cursor-to-line-start sequence
\* and no newline when the severity is Progress and the ANSI-support flag is
\* set; it ends with a newline for every other severity, and for Progress too
\* when the flag is not set.
C13_LineStartOnlyWithAnsi ==
    \A k \in 1..Len(ConsoleWrites) :
        LET c == ConsoleWrites[k]
        IN  IF c.severity = "Progress" /\ mSupportsAnsiControlSequences
            THEN EndsWith(c.text, LINE_BEGIN) /\ ~EndsWith(c.text, <<"\n">>)
            ELSE EndsWith(c.text, <<"\n">>) /\ ~EndsWith(c.text, LINE_BEGIN)

\* a progress bar written on a console without ANSI support: it ends in a
\* newline
C13_Witness ==
    /\ op.name = "logProgress" /\ ~mSupportsAnsiControlSequences
    /\ Len(ConsoleWrites) = 1
    /\ ConsoleWrites[1].severity = "Progress"
    /\ EndsWith(ConsoleWrites[1].text, <<"s", "\n">>)

\* C14: when writeLine returns, on the console sink and on the file sink, the
\* line it wrote has been flushed to its stream.
C14_FlushedImmediately ==
    \A k \in 1..Len(calls) :
        (calls[k].fn = "writeLine" /\ ~calls[k].threw) => calls[k].flushed

\* the registered sinks whose writeLine throws for the last log call
Failing == {s \in mOutputs : Throws(s, op.severity)}

\* the first of them in iteration order
FirstFailing == CHOOSE s \in Failing : \A t \in Failing : addr[s] <= addr[t]

\* a log call whose time stamp cannot be rendered ends in the failing sink
RaiseEndsTheCall ==
    (op.name = "log" /\ op.severity \notin mHiddenTypes /\ Failing # {}) =>
        /\ calls # <<>>
        /\ calls[Len(calls)].threw /\ calls[Len(calls)].sink = FirstFailing
        /\ Len(CallsOn(FirstFailing)) = 1
        /\ CallsOn(FirstFailing)[1].text = <<>>
        /\ \A s \in mOutputs :
            /\ addr[s] > addr[FirstFailing] => CallsOn(s) = <<>>
            /\ addr[s] < addr[FirstFailing] =>
                /\ Len(CallsOn(s)) = 1
                /\ ~CallsOn(s)[1].threw /\ CallsOn(s)[1].text # <<>>

\* with severity None no time stamp is rendered: nothing throws
NoneNeverRaises ==
    (op.name = "log" /\ op.severity = "None") =>
        /\ \A k \in 1..Len(calls) : ~calls[k].threw
        /\ "None" \notin mHiddenTypes => Len(calls) = Cardinality(mOutputs)

\* a log call that raised
RaisedLog == op.name = "log" /\ calls # <<>> /\ calls[Len(calls)].threw

\* C15: when std::strftime reports failure in a writeLine with a severity
\* other than None, the error leaves Logger::log at once: the failing sink
\* writes nothing and is called once, no later sink is called, and the sink
\* set and the hidden set are unchanged; with severity None nothing can fail.
C15_TimeFailurePropagates ==
    /\ [](RaiseEndsTheCall /\ NoneNeverRaises)
    /\ [][RaisedLog' => (mOutputs' = mOutputs /\ mHiddenTypes' = mHiddenTypes)]_vars

\* both sinks registered, the first in iteration order failed: one call, no
\* text, the second sink not called
C15_Witness ==
    /\ RaisedLog /\ mOutputs = Sinks /\ Failing = Sinks
    /\ Len(calls) = 1 /\ calls[1].text = <<>>
    /\ mHiddenTypes # {}

-----------------------------------------------------------------------------
(* The global accessors: the function-local statics of ConsoleOutput::global()
   and Logger::global(), from first use to the end of the process *)

\* ConsoleOutput::global(): the first call constructs the object
consoleGlobal(st) ==
    IF st.consoleOutput # "uninitialized" THEN st
    ELSE [st EXCEPT !.consoleOutput = "initialized",
                    !.built = Append(@, "consoleOutput"),
                    !.owners = 1, !.object = "alive", !.consoles = @ + 1]

\* a Logger static that completes before the console it names and keeps no
\* owning pointer to it
loggerGlobal_consoleLater(st) ==
    IF st.logger # "uninitialized" THEN st
    ELSE LET l == [st EXCEPT !.logger = "initialized",
                             !.built = Append(@, "logger"), !.loggers = @ + 1]
         IN  consoleGlobal(l)

\* Logger::global(): the first call evaluates new Logger({ConsoleOutput::global()}),
\* the console accessor first, and its set holds a copy of the shared_ptr
loggerGlobal(st) ==
    IF st.logger # "uninitialized" THEN st
    ELSE LET c == consoleGlobal(st)
         IN  [c EXCEPT !.logger = "initialized",
                       !.built = Append(@, "logger"),
                       !.owners = @ + 1, !.held = TRUE, !.loggers = @ + 1]

\* the statics still to destroy, in construction order
Standing(st) == SelectSeq(st.built, LAMBDA x : \A k \in 1..Len(st.torn) : st.torn[k] # x)

\* one owner less; the object goes with the last one
Release(st) ==
    [st EXCEPT !.owners = @ - 1,
               !.object = IF st.owners = 1 THEN "destroyed" ELSE @]

\* the destructor of one static: the unique_ptr deletes the Logger and with it
\* the set's copy of the shared_ptr; the shared_ptr static gives up its own
destroyStatic(st, x) ==
    LET gone == [st EXCEPT !.torn = Append(@, x), ![x] = "destroyed"]
    IN  IF x = "logger" /\ ~st.held THEN gone ELSE Release(gone)

InitGlobals ==
    /\ build = "unique_ptr"
    /\ addr \in Addresses
    /\ mOutputs = {}
    /\ mHiddenTypes = {}
    /\ registered = <<>>
    /\ op = [name |-> "main"]
    /\ calls = <<>>
    /\ streams = NoStreams
    /\ bar = NoBar
    /\ mSupportsAnsiControlSequences \in BOOLEAN
    /\ strftimeFails = {}
    /\ statics = NoStatics
    /\ progress = NoProgress
    /\ clock = 0

UseConsoleGlobal ==
    /\ ~statics.exiting
    /\ statics' = consoleGlobal(statics)
    /\ op' = [name |-> "ConsoleOutput::global"]
    /\ calls' = <<>>
    /\ UNCHANGED <<sinkEnv, handleVars, build, addr, mOutputs, mHiddenTypes,
                   registered, streams, bar>>

\* the Logger is constructed with the console in its set; NDEBUG hides Debug
UseLoggerGlobal ==
    /\ ~statics.exiting
    /\ statics' = loggerGlobal(statics)
    /\ IF statics.logger = "uninitialized"
       THEN /\ mOutputs' = {"console"}
            /\ registered' = <<"console">>
            /\ mHiddenTypes' \in {{}, {"Debug"}}
       ELSE UNCHANGED <<mOutputs, registered, mHiddenTypes>>
    /\ op' = [name |-> "Logger::global"]
    /\ calls' = <<>>
    /\ UNCHANGED <<sinkEnv, handleVars, build, addr, streams, bar>>

\* Logger::global()->log(...), also from a destructor that runs while the
\* process ends; object: the state of the console object when the call is made
GlobalLog ==
    \E severity \in ESeverity, line \in Lines :
        /\ statics.logger = "initialized"
        /\ op' = [name |-> "log", severity |-> severity, line |-> line,
                  object |-> statics.object]
        /\ calls' = log(severity, line)
        /\ UNCHANGED <<sinkEnv, statics, handleVars, build, addr, mOutputs,
                       mHiddenTypes, registered, streams, bar>>

\* main returns or exit() is called
BeginExit ==
    /\ ~statics.exiting
    /\ statics' = [statics EXCEPT !.exiting = TRUE]
    /\ op' = [name |-> "exit"]
    /\ calls' = <<>>
    /\ UNCHANGED <<sinkEnv, handleVars, build, addr, mOutputs, mHiddenTypes,
                   registered, streams, bar>>

\* objects with static storage duration are destroyed in the reverse order of
\* the completion of their construction
DestroyStatic ==
    /\ statics.exiting
    /\ Standing(statics) # <<>>
    /\ LET x == Standing(statics)[Len(Standing(statics))]
       IN  /\ statics' = destroyStatic(statics, x)
           /\ op' = [name |-> "destroy", static |-> x]
           /\ IF x = "logger"
              THEN mOutputs' = {} /\ registered' = <<>> /\ mHiddenTypes' = {}
              ELSE UNCHANGED <<mOutputs, registered, mHiddenTypes>>
    /\ calls' = <<>>
    /\ UNCHANGED <<sinkEnv, handleVars, build, addr, streams, bar>>

NextGlobals ==
    \/ UseConsoleGlobal
    \/ UseLoggerGlobal
    \/ GlobalLog
    \/ BeginExit
    \/ DestroyStatic

SpecGlobals == InitGlobals /\ [][NextGlobals]_vars

\* x comes before y in the sequence
Before(seq, x, y) ==
    \E i, j \in 1..Len(seq) : i < j /\ seq[i] = x /\ seq[j] = y

\* C16: the global Logger and the global ConsoleOutput are created on first
\* use and once; the console is fully constructed before the Logger that
\* registers it, and destroyed only after the Logger when the process ends; no
\* log call made through Logger::global() reaches a destroyed console sink.
C16_ConsoleOutlivesLogger ==
    /\ statics.consoles <= 1 /\ statics.loggers <= 1
    /\ statics.consoles = 1 <=> statics.consoleOutput # "uninitialized"
    /\ statics.loggers = 1 <=> statics.logger # "uninitialized"
    /\ statics.logger # "uninitialized" =>
        Before(statics.built, "consoleOutput", "logger")
    /\ statics.object = "destroyed" => statics.logger # "initialized"
    /\ (statics.consoleOutput = "destroyed" /\ statics.logger # "uninitialized") =>
        Before(statics.torn, "logger", "consoleOutput")
    /\ op.name = "log" =>
        \A k \in 1..Len(calls) : IsConsole(calls[k].sink) => op.object = "alive"

\* the process is ending: the Logger is gone, the console object it wrote to
\* is still alive
C16_Witness ==
    /\ statics.exiting /\ statics.torn = <<"logger">>
    /\ statics.built = <<"consoleOutput", "logger">>
    /\ statics.object = "alive" /\ statics.owners = 1

-----------------------------------------------------------------------------
(* The progress handle: tlog::progress(N), update(current), duration().  The
   header that declares it is not among the sources; it is modelled from its
   description and from its use in the demo. *)

HalfSecond == 500000

\* now - start on a steady clock
Elapsed(start) ==
    Dur((clock - start) \div 2, ((clock - start) % 2) * HalfSecond)

\* the handle: the total and the start time fixed at creation, and the most
\* recent current count; elapsed: history, the elapsed time of the last update
NewProgress(total) ==
    [state |-> "active", total |-> total, start |-> clock, current |-> 0,
     elapsed |-> Dur(0, 0)]

Tick ==
    /\ clock < MaxClock
    /\ clock' = clock + 1
    /\ op' = [name |-> "tick"]
    /\ calls' = <<>>
    /\ UNCHANGED <<sinkEnv, statics, progress, build, addr, mOutputs,
                   mHiddenTypes, registered, streams, bar>>

\* tlog::progress(total)
CreateProgress ==
    \E total \in {1, MaxTotal} :
        /\ progress.state = "none"
        /\ progress' = NewProgress(total)
        /\ op' = [name |-> "progress", total |-> total]
        /\ calls' = <<>>
        /\ UNCHANGED <<sinkEnv, statics, clock, build, addr, mOutputs,
                       mHiddenTypes, registered, streams, bar>>

\* progress.update(current)
UpdateProgress ==
    /\ progress.state = "active"
    /\ \E current \in 1..progress.total, consoleWidth \in {80} :
        /\ progress' = [progress EXCEPT !.current = current,
                                        !.elapsed = Elapsed(progress.start)]
        /\ op' = [name |-> "update", current |-> current,
                  consoleWidth |-> consoleWidth]
        /\ calls' = logProgress(current, progress.total, Elapsed(progress.start),
                                consoleWidth)
        /\ UNCHANGED <<sinkEnv, statics, clock, build, addr, mOutputs,
                       mHiddenTypes, registered, streams, bar>>

\* progress.duration()
QueryDuration ==
    /\ progress.state = "active"
    /\ op' = [name |-> "duration", result |-> Elapsed(progress.start)]
    /\ calls' = <<>>
    /\ UNCHANGED <<sinkEnv, statics, handleVars, build, addr, mOutputs,
                   mHiddenTypes, registered, streams, bar>>

\* the handle goes out of scope, complete or not
ReleaseProgress ==
    /\ progress.state = "active"
    /\ progress' = [state |-> "released", total |-> progress.total,
                    start |-> progress.start, current |-> progress.current,
                    elapsed |-> progress.elapsed]
    /\ op' = [name |-> "~progress"]
    /\ calls' = <<>>
    /\ UNCHANGED <<sinkEnv, statics, clock, build, addr, mOutputs,
                   mHiddenTypes, registered, streams, bar>>

\* logger.hideType(ESeverity::Progress)
HideProgress == hideType("Progress")

InitProgress ==
    /\ InitLogger
    /\ build = "unique_ptr"
    /\ InitOthers
    /\ streams = NoStreams
    /\ bar = NoBar

NextProgress ==
    \/ Tick
    \/ CreateProgress
    \/ UpdateProgress
    \/ QueryDuration
    \/ ReleaseProgress
    \/ AddOutput
    \/ HideProgress

SpecProgress == InitProgress /\ [][NextProgress]_vars

\* a <= b for durations
DurLeq(a, b) == a.sec < b.sec \/ (a.sec = b.sec /\ a.usec <= b.usec)

\* an update makes one logProgress(current, total, elapsed) call: unless
\* Progress is hidden, every registered sink is handed that triple once
UpdateLogsOnce ==
    op.name = "update" =>
        IF "Progress" \in mHiddenTypes THEN calls = <<>>
        ELSE \A sink \in Sinks :
                LET c == SelectSeq(CallsOn(sink), LAMBDA x : x.fn = "writeProgress")
                IN  IF sink \notin mOutputs THEN CallsOn(sink) = <<>>
                    ELSE /\ Len(c) = 1
                         /\ c[1].current = op.current
                         /\ c[1].total = progress.total
                         /\ c[1].duration = Elapsed(progress.start)

\* creation, duration() and the end of the handle make no call
OnlyUpdateLogs ==
    op.name \in {"progress", "duration", "~progress", "tick"} => calls = <<>>

\* duration() returns the time since creation
DurationIsElapsed ==
    op.name = "duration" => op.result = Elapsed(progress.start)

\* the total and the start time never change, duration() changes nothing
\* of the handle, and the elapsed time of an update is not below that of
\* the update before it
HandleSteps ==
    /\ (progress.state = "active" /\ progress'.state # "none") =>
        /\ progress'.total = progress.total
        /\ progress'.start = progress.start
    /\ op'.name = "duration" => progress' = progress
    /\ (op'.name = "update" /\ progress.state = "active") =>
        DurLeq(progress.elapsed, progress'.elapsed)

\* C18: every update(c) of a progress handle created with total N makes one
\* logProgress(c, N, elapsed) call, N fixed at creation and elapsed the time
\* since creation, non-decreasing from update to update; creation and the end
\* of the handle make no logProgress call, duration() makes none and leaves
\* the total and the start time as they are.
C18_UpdateLogsProgress ==
    /\ [](UpdateLogsOnce /\ OnlyUpdateLogs /\ DurationIsElapsed)
    /\ [][HandleSteps]_vars

\* a second update, a second and a half after creation, reached both sinks
C18_Witness ==
    /\ op.name = "update" /\ mOutputs = Sinks /\ "Progress" \notin mHiddenTypes
    /\ progress.total = MaxTotal /\ progress.current = 2
    /\ progress.elapsed = Dur(1, HalfSecond)
    /\ Len(calls) = 4

-----------------------------------------------------------------------------
(* ConsoleOutput::writeLine alone, over messages with and without a line
   break at their end, on any terminal and with either version of the header *)

Messages == {<<>>, <<"\n">>, <<"h", "i">>, <<"h", "i", "\n">>, <<"h", "\n", "i">>}

InitConsole ==
    /\ build \in {"member", "unique_ptr"}
    /\ mSupportsAnsiControlSequences \in BOOLEAN
    /\ strftimeFails = {}
    /\ statics = NoStatics
    /\ progress = NoProgress
    /\ clock = 0
    /\ addr \in Addresses
    /\ mOutputs = {"console"}
    /\ mHiddenTypes = {}
    /\ registered = <<"console">>
    /\ op = [name |-> "construct"]
    /\ calls = <<>>
    /\ streams = NoStreams
    /\ bar = NoBar

\* one call of writeLine on the console object
WriteLine ==
    \E severity \in ESeverity, line \in Messages :
        /\ op' = [name |-> "writeLine", severity |-> severity, line |-> line]
        /\ calls' = writeLine("console", severity, line)
        /\ UNCHANGED <<sinkEnv, statics, handleVars,
                       build, addr, mOutputs, mHiddenTypes, registered, streams, bar>>

NextConsole == WriteLine

SpecConsole == InitConsole /\ [][NextConsole]_vars

\* the line breaks of the written text that the message did not bring
LineBreaksAdded(c) == Count("\n", c.text) - Count("\n", c.line)

\* C21: for every severity other than Progress and every message,
\* ConsoleOutput::writeLine adds no line break to a message that ends with
\* one and adds one line break to a message that does not, with ANSI
\* sequences enabled and disabled: the text ends with exactly one.
C21_ExactlyOneLineBreak ==
    \A k \in 1..Len(ConsoleWrites) :
        LET c == ConsoleWrites[k]
        IN  c.severity # "Progress" =>
                LineBreaksAdded(c) = IF EndsWith(c.line, <<"\n">>) THEN 0 ELSE 1

-----------------------------------------------------------------------------
(* One LogStream whose Logger is reconfigured between its construction and
   its destruction *)

GateSeverities == {"Info", "Debug"}

ConstructOne == \E severity \in GateSeverities : Construct("A", severity)
HideGated == \E severity \in GateSeverities : hideType(severity)
ShowGated == \E severity \in GateSeverities : showType(severity)

NextLate ==
    \/ ConstructOne
    \/ AppendValue
    \/ DestroyStream
    \/ AddOutput
    \/ RemoveOutput
    \/ HideGated
    \/ ShowGated

SpecLate == InitStream /\ [][NextLate]_vars

\* the stream whose destructor ran last
Destroyed == streams[op.stream]

\* C22: the hidden-severity gate and the sink set are read when a LogStream is
\* destroyed: construction and operator<< dispatch nothing, and the destructor
\* writes the line to no sink if the severity is hidden at that moment and
\* otherwise once to each sink registered at that moment and to no other,
\* whatever the gate and the sinks were when the stream was constructed.
C22_GateAtDestruction ==
    /\ op.name \in {"LogStream", "operator<<"} => calls = <<>>
    /\ op.name = "~LogStream" =>
        /\ \A k \in 1..Len(calls) :
            /\ calls[k].fn = "writeLine"
            /\ calls[k].severity = Destroyed.mSeverity
            /\ calls[k].line = Accumulated(Destroyed.appended)
        /\ \A sink \in Sinks :
            Len(CallsOn(sink)) =
                IF sink \in mOutputs /\ Destroyed.mSeverity \notin mHiddenTypes
                THEN 1 ELSE 0

\* a Debug stream constructed while Debug was hidden and the console was the
\* only sink, destroyed after showType(Debug), after the file sink was added
\* and the console removed: its line went to the file and nowhere else
C22_Witness ==
    /\ op.name = "~LogStream"
    /\ Destroyed.mSeverity = "Debug"
    /\ Destroyed.born = [hidden |-> TRUE, outputs |-> {"console"}]
    /\ mOutputs = {"file"} /\ "Debug" \notin mHiddenTypes
    /\ Len(calls) = 1 /\ calls[1].sink = "file"
    /\ calls[1].line = <<"a", "b", "4", "2">>

-----------------------------------------------------------------------------
(* Two LogStreams, one move-assigned to the other *)

ConstructGated == \E i \in StreamIds, severity \in GateSeverities : Construct(i, severity)
AssignStream == \E from, to \in StreamIds : MoveAssign(from, to)

NextAssign ==
    \/ ConstructGated
    \/ AppendValue
    \/ AssignStream
    \/ DestroyStream

SpecAssign == InitStream /\ [][NextAssign]_vars

\* the Logger::log calls the destructors of a and b made with this severity
\* and this text
Forwarded(a, b, message) ==
    Len(SelectSeq(streams[a].logged \o streams[b].logged,
                  LAMBDA l : l = message))

\* b was move-assigned from a once, while both held appended text of a visible
\* severity, a was not touched since, and both have been destroyed
AssignedAndDestroyed(a, b) ==
    /\ Dead(a) /\ Dead(b)
    /\ streams[b].source = a /\ Len(streams[b].replaced) = 1
    /\ streams[a].replaced = <<>> /\ streams[a].source = "none"
    /\ streams[b].replaced[1].line # <<>>
    /\ streams[b].replaced[1].severity \notin mHiddenTypes
    /\ streams[a].appended # <<>>
    /\ streams[a].mSeverity \notin mHiddenTypes

\* C23: after B = std::move(A), with pending text of a visible severity in
\* both, the text B held before the assignment is forwarded to the Logger
\* exactly once, the text taken over from A is forwarded exactly once, with
\* A's severity and at B's destruction, and A's destruction forwards nothing.
C23_NoMessageLostByAssignment ==
    \A a, b \in StreamIds :
        AssignedAndDestroyed(a, b) =>
            LET held == streams[b].replaced[1]
                taken == OwnLine(b)
            IN  /\ streams[a].logged = <<>>
                /\ streams[b].mSeverity = streams[a].mSeverity
                /\ IsPrefix(streams[a].appended, streams[b].appended)
                /\ Forwarded(a, b, taken) >= 1
                /\ Forwarded(a, b, held) >= 1
                /\ Forwarded(a, b, taken) + Forwarded(a, b, held)
                        = IF held = taken THEN 4 ELSE 2

=============================================================================
